---------------------------- MODULE Spec2Model ----------------------------
(***************************************************************************)
(* A model of the Schemey core: the maximal-munch tokenizer of             *)
(* src/lexer.py and the builtin procedure runtime of src/_builtins.py.     *)
(*                                                                         *)
(* The buffer of the lexer is a sequence of one-character strings; Python  *)
(* offsets are 0-based, so buffer[offset] of the source is buffer[offset+1]*)
(* here.                                                                   *)
(***************************************************************************)
EXTENDS Integers, Sequences, FiniteSets, TLC

VARIABLES
    buffer,     \* Lexer.buffer
    pos,        \* Lexer.pos
    tok,        \* what the last next_token() call returned
    heap,       \* the Pair objects allocated so far: address -> [first, second]
    fuel,       \* how many more procedure applications the caller will make
    call,       \* the Procedure.apply call just made: [name, args], or NoCall
    ret,        \* how that call ended: a returned value or a raised exception
    invoked     \* whether that call reached self.builtin_proc(*args)

lexvars == <<buffer, pos, tok>>
rtvars == <<heap, fuel, call, ret, invoked>>
vars == <<buffer, pos, tok, heap, fuel, call, ret, invoked>>

-----------------------------------------------------------------------------
(* Bounds of the model.                                                    *)

MaxLen == 4         \* longest input buffer
MaxArgs == 3        \* longest argument list handed to Procedure.apply
MaxPairs == 2       \* most Pair objects alive
MaxCalls == 2       \* most procedure applications in one behaviour of RtSpec

-----------------------------------------------------------------------------
(* src/lexer.py                                                            *)

ADDITIONAL_BUILTIN_CHARS == {"?", "!", "."}
GARBAGE_CHARS == {" ", "\n", "\t", "\r"}
TRUE_OR_FALSE_CHARS == {"t", "f"}
COMMENT_CHAR == ";"

\* The keys of builtin_map.
BuiltinNames ==
    {"eq?", "eqv?", "pair?", "zero?", "boolean?", "symbol?", "number?",
     "null?", "string?", "+", "-", "*", "quotient", "modulo", "=", ">", "<",
     ">=", "<=", "and", "or", "not", "list", "cons", "car", "cdr", "cadr",
     "caddr", "set-car!", "set-cdr!", "string-length"}

\* str.isdigit and str.isalnum, on the ASCII characters.
Digits == {"0", "1", "2", "3", "4", "5", "6", "7", "8", "9"}
Letters ==
    {"a", "b", "c", "d", "e", "f", "g", "h", "i", "j", "k", "l", "m", "n",
     "o", "p", "q", "r", "s", "t", "u", "v", "w", "x", "y", "z",
     "A", "B", "C", "D", "E", "F", "G", "H", "I", "J", "K", "L", "M", "N",
     "O", "P", "Q", "R", "S", "T", "U", "V", "W", "X", "Y", "Z"}
isdigit(char) == char \in Digits
isalnum(char) == char \in Digits \cup Letters

\* The characters the model's buffers are made of: one or two of each class
\* next_token tells apart.
Alphabet ==
    {"1", "t", "#", "\"", "\\", "\n", " ", ";", "(", ")", "'", ">", "=", "@"}

\* Python's None, where a character is expected.
NoChar == "<None>"

TokenTypes ==
    [BOOLEAN |-> "BOOLEAN", STRING |-> "STRING", NUMBER |-> "NUMBER",
     IDENTIFIER |-> "IDENTIFIER", LPAREN |-> "LPAREN", RPAREN |-> "RPAREN",
     QUOTE |-> "QUOTE"]

\* The three things next_token returns: a Token, an Error, or None.
Token(token_type, val, p) ==
    [kind |-> "Token", token_type |-> token_type, val |-> val, pos |-> p]
Error(p) == [kind |-> "Error", token_type |-> "", val |-> <<>>, pos |-> p]
NoToken == [kind |-> "None", token_type |-> "", val |-> <<>>, pos |-> 0]
\* Before the first call nothing has been returned.
NotCalled == [kind |-> "NotCalled", token_type |-> "", val |-> <<>>, pos |-> 0]

is_identifier(char) ==
    isalnum(char) \/ char \in BuiltinNames \/ char \in ADDITIONAL_BUILTIN_CHARS

\* Lexer._get_char(pos): `offset = pos or self.pos`, so an argument of 0
\* (like the default None) reads at self.pos.
_get_char(buf, selfpos, p) ==
    LET offset == IF p = 0 THEN selfpos ELSE p
    IN  IF offset < Len(buf) THEN buf[offset + 1] ELSE NoChar

\* Lexer._get_char()
_get_char_default(buf, selfpos) == _get_char(buf, selfpos, 0)

\* buffer[a:b], Python's slice.
Slice(buf, a, b) ==
    LET hi == IF b < Len(buf) THEN b ELSE Len(buf)
    IN  IF a < hi THEN SubSeq(buf, a + 1, hi) ELSE <<>>

\* Lexer._skip_whitespace: the position it leaves.
RECURSIVE _skip_whitespace(_, _)
_skip_whitespace(buf, p) ==
    IF /\ _get_char_default(buf, p) # NoChar
       /\ _get_char_default(buf, p) \in GARBAGE_CHARS
    THEN _skip_whitespace(buf, p + 1)
    ELSE p

\* The while loop of Lexer._skip_comments.
RECURSIVE _skip_comments_loop(_, _)
_skip_comments_loop(buf, p) ==
    IF /\ _get_char_default(buf, p) # NoChar
       /\ _get_char_default(buf, p) # "\n"
    THEN _skip_comments_loop(buf, p + 1)
    ELSE p

\* Lexer._skip_comments: the position it leaves.
_skip_comments(buf, p) ==
    IF _get_char_default(buf, p) = COMMENT_CHAR
    THEN _skip_comments_loop(buf, p)
    ELSE p

\* The skipping loop at the head of next_token: the position it leaves.
RECURSIVE next_token_skip(_, _)
next_token_skip(buf, p) ==
    IF \/ _get_char_default(buf, p) \in GARBAGE_CHARS
       \/ _get_char_default(buf, p) = COMMENT_CHAR
    THEN next_token_skip(buf, _skip_whitespace(buf, _skip_comments(buf, p)))
    ELSE p

\* Each _process_* below gives the pair [tok, pos]: the value returned and
\* the cursor the call leaves.

_process_boolean(buf, p) ==
    [tok |-> Token(TokenTypes.BOOLEAN, Slice(buf, p, p + 2), p), pos |-> p + 2]

\* The while loop of _process_number: the endpos it stops at.
RECURSIVE _process_number_loop(_, _, _)
_process_number_loop(buf, p, endpos) ==
    IF _get_char(buf, p, endpos) # NoChar /\ isdigit(_get_char(buf, p, endpos))
    THEN _process_number_loop(buf, p, endpos + 1)
    ELSE endpos

\* The while loop of _process_identifier: the endpos it stops at.
RECURSIVE _process_identifier_loop(_, _, _)
_process_identifier_loop(buf, p, endpos) ==
    IF _get_char(buf, p, endpos) # NoChar
       /\ is_identifier(_get_char(buf, p, endpos))
    THEN _process_identifier_loop(buf, p, endpos + 1)
    ELSE endpos

\* _process_number, were its loop to run on while is_identifier holds.
_process_number_OverIdentifier(buf, p) ==
    LET endpos == _process_identifier_loop(buf, p, p + 1)
    IN  [tok |-> Token(TokenTypes.NUMBER, Slice(buf, p, endpos), p),
         pos |-> endpos]

_process_number(buf, p) ==
    LET endpos == _process_number_loop(buf, p, p + 1)
    IN  [tok |-> Token(TokenTypes.NUMBER, Slice(buf, p, endpos), p),
         pos |-> endpos]

\* The while loop of _process_string: the endpos of the closing quote, or -1
\* when the end of the buffer or a newline comes first.
RECURSIVE _process_string_loop(_, _, _)
_process_string_loop(buf, p, endpos) ==
    IF _get_char(buf, p, endpos) # "\""
    THEN IF _get_char(buf, p, endpos) = NoChar \/ _get_char(buf, p, endpos) = "\n"
         THEN -1
         ELSE _process_string_loop(buf, p, endpos + 1)
    ELSE endpos

\* Where the loop of _process_string stops: at a quote, a newline or the end.
RECURSIVE _process_string_stop(_, _, _)
_process_string_stop(buf, p, endpos) ==
    IF _get_char(buf, p, endpos) \in {"\"", "\n", NoChar}
    THEN endpos
    ELSE _process_string_stop(buf, p, endpos + 1)

\* _process_string, were it to report the error at the offset where the
\* newline or the end of the buffer was found.
_process_string_ErrorAtEndpos(buf, p) ==
    LET endpos == _process_string_loop(buf, p, p + 1)
    IN  IF endpos = -1
        THEN [tok |-> Error(_process_string_stop(buf, p, p + 1)), pos |-> p]
        ELSE [tok |-> Token(TokenTypes.STRING, Slice(buf, p + 1, endpos), p),
              pos |-> endpos + 1]

_process_string(buf, p) ==
    LET endpos == _process_string_loop(buf, p, p + 1)
    IN  IF endpos = -1
        THEN [tok |-> Error(p), pos |-> p]
        ELSE [tok |-> Token(TokenTypes.STRING, Slice(buf, p + 1, endpos), p),
              pos |-> endpos + 1]

_process_identifier(buf, p) ==
    LET endpos == _process_identifier_loop(buf, p, p + 1)
    IN  [tok |-> Token(TokenTypes.IDENTIFIER, Slice(buf, p, endpos), p),
         pos |-> endpos]

_process_lparen(buf, p) ==
    [tok |-> Token(TokenTypes.LPAREN, <<buf[p + 1]>>, p), pos |-> p + 1]

_process_rparen(buf, p) ==
    [tok |-> Token(TokenTypes.RPAREN, <<buf[p + 1]>>, p), pos |-> p + 1]

_process_quote(buf, p) ==
    [tok |-> Token(TokenTypes.QUOTE, <<buf[p + 1]>>, p), pos |-> p + 1]

\* Lexer.next_token, from cursor p0: the value returned and the cursor left.
next_token(buf, p0) ==
    LET p == next_token_skip(buf, p0)
        char == _get_char_default(buf, p)
    IN  IF char = NoChar THEN [tok |-> NoToken, pos |-> p]
        ELSE IF char = "#" /\ _get_char(buf, p, p + 1) \in TRUE_OR_FALSE_CHARS
            THEN _process_boolean(buf, p)
        ELSE IF isdigit(char) THEN _process_number(buf, p)
        ELSE IF char = "\"" THEN _process_string(buf, p)
        ELSE IF is_identifier(char) THEN _process_identifier(buf, p)
        ELSE IF char = "(" THEN _process_lparen(buf, p)
        ELSE IF char = ")" THEN _process_rparen(buf, p)
        ELSE IF char = "'" THEN _process_quote(buf, p)
        ELSE [tok |-> Error(p), pos |-> p]

-----------------------------------------------------------------------------
(* src/_builtins.py, and the value classes it imports.                     *)

\* The Python values a Value object holds.  Each kind has a field of its
\* own, so that two of different kinds are unequal rather than incomparable.
PyInt(n) == [int |-> n]
PyStr(s) == [str |-> s]
PyBool(b) == [bool |-> b]
IsInt(v) == DOMAIN v = {"int"}
IsStr(v) == DOMAIN v = {"str"}
IsBool(v) == DOMAIN v = {"bool"}
\* bool is a subclass of int: True and False count as 1 and 0.
IsNumeric(v) == IsInt(v) \/ IsBool(v)
AsInt(v) == IF IsInt(v) THEN v.int ELSE IF v.bool THEN 1 ELSE 0

\* The Value variants.  A Pair value is a reference to a Pair object of the
\* heap; the object itself is heap[addr] = [first, second].
Number(v) == [tag |-> "Number", value |-> v]
Boolean(b) == [tag |-> "Boolean", value |-> PyBool(b)]
String(s) == [tag |-> "String", value |-> PyStr(s)]
Symbol(s) == [tag |-> "Symbol", name |-> PyStr(s)]
Nil == [tag |-> "Nil"]
Pair(addr) == [tag |-> "Pair", addr |-> addr]
None == [tag |-> "NoneType"]

\* isinstance(obj, cls)
isinstance(obj, cls) == obj.tag = cls

\* Whether obj.value exists: Number, Boolean and String carry a value.
HasValue(obj) == obj.tag \in {"Number", "Boolean", "String"}

\* Whether obj.first and obj.second exist: only a Pair has the two slots.
HasFirst(obj) == obj.tag = "Pair"

\* left == right on two Value objects: of the same variant, with equal fields.
ValueEq(left, right) == left = right

\* How a call ends: it returns a value, or raises an exception.  msg is the
\* message, as the sequence of pieces it is formatted from.
Return(v) == [kind |-> "return", exc |-> "", msg |-> <<>>, val |-> v]
Raise(exc, msg) == [kind |-> "raise", exc |-> exc, msg |-> msg, val |-> None]
NoRet == [kind |-> "none", exc |-> "", msg |-> <<>>, val |-> None]
NoCall == [name |-> "", args |-> <<>>]

\* A builtin gives [ret, heap]: how it ends and the heap it leaves.
Result(r, h) == [ret |-> r, heap |-> h]

\* str(n), for the small counts of the model.
DecimalDigits == <<"0", "1", "2", "3", "4", "5", "6", "7", "8", "9">>
IntStr(n) == DecimalDigits[n + 1]

\* utils.get_number_of_params(builtin_map[name]): the number of declared
\* parameters, or 'positional' for a *args signature.
get_number_of_params(name) ==
    IF name \in {"eq?", "eqv?", "+", "-", "*", "=", ">", "<", ">=", "<=",
                 "and", "or", "list"}
    THEN PyStr("positional")
    ELSE IF name \in {"quotient", "modulo", "cons", "set-car!", "set-cdr!"}
    THEN PyInt(2)
    ELSE PyInt(1)

\* str(argc) in the message of Procedure.apply.
ArgcStr(argc) == IF IsStr(argc) THEN argc.str ELSE IntStr(argc.int)

\* check_type(expected_type, objs, msg): TRUE when it raises.
check_type_raises(expected_type, objs) ==
    \E i \in 1..Len(objs) : ~isinstance(objs[i], expected_type)

\* reduce(op_func, [el.value for el in args]) of arith_op, on integers.
RECURSIVE reduce(_, _, _, _)
reduce(name, args, i, acc) ==
    IF i > Len(args) THEN acc
    ELSE LET x == AsInt(args[i].value)
         IN  reduce(name, args, i + 1,
                    CASE name = "+" -> acc + x
                      [] name = "-" -> acc - x
                      [] name = "*" -> acc * x)

\* unary_func(args[0].value) of arith_op: +x, -x, or x itself for *.
unary_func(name, v) ==
    CASE name = "*" -> Return(Number(v))
      [] name = "+" -> IF IsNumeric(v) THEN Return(Number(PyInt(AsInt(v))))
                       ELSE Raise("TypeError", <<>>)
      [] name = "-" -> IF IsNumeric(v) THEN Return(Number(PyInt(0 - AsInt(v))))
                       ELSE Raise("TypeError", <<>>)

\* arith_op(op_func, unary_func), the closure registered for + - *.
arith_op(name, args, h) ==
    IF Len(args) = 1
    THEN IF ~HasValue(args[1])
         THEN Result(Raise("AttributeError", <<>>), h)
         ELSE Result(unary_func(name, args[1].value), h)
    ELSE IF check_type_raises("Number", args)
    THEN Result(Raise("ProcedureError", <<"Expected numbers only">>), h)
    ELSE IF Len(args) = 0
    THEN Result(Raise("TypeError", <<>>), h)    \* reduce() of an empty list
    ELSE Result(Return(Number(PyInt(
                   reduce(name, args, 2, AsInt(args[1].value))))), h)

\* The strings of the model, in lexicographic order.
StringValues == <<"a">>
StrOrd(s) == CHOOSE i \in 1..Len(StringValues) : StringValues[i] = s

\* op_func(a, b) of comp_op on two Python values: "True", "False", or
\* "TypeError" where Python refuses to order an int and a str.
PyCompare(name, a, b) ==
    LET cmp(x, y) == CASE name = "=" -> x = y
                       [] name = ">" -> x > y
                       [] name = "<" -> x < y
                       [] name = ">=" -> x >= y
                       [] name = "<=" -> x <= y
        truth(t) == IF t THEN "True" ELSE "False"
    IN  IF IsNumeric(a) /\ IsNumeric(b) THEN truth(cmp(AsInt(a), AsInt(b)))
        ELSE IF IsStr(a) /\ IsStr(b) THEN truth(cmp(StrOrd(a.str), StrOrd(b.str)))
        ELSE IF name = "=" THEN "False"
        ELSE "TypeError"

\* The for loop of comp_op, with `value` at args[i] and `element` next.
RECURSIVE comp_op_loop(_, _, _)
comp_op_loop(name, args, i) ==
    IF i + 1 > Len(args) THEN Return(Boolean(TRUE))
    ELSE IF ~HasValue(args[i]) \/ ~HasValue(args[i + 1])
    THEN Raise("AttributeError", <<>>)
    ELSE LET c == PyCompare(name, args[i].value, args[i + 1].value)
         IN  IF c = "TypeError" THEN Raise("TypeError", <<>>)
             ELSE IF c = "True" THEN comp_op_loop(name, args, i + 1)
             ELSE Return(Boolean(FALSE))

\* comp_op(op_func), the closure registered for = > < >= <=.
comp_op(name, args, h) ==
    IF Len(args) = 0
    THEN Result(Raise("StopIteration", <<>>), h)    \* next(it) of no arguments
    ELSE Result(comp_op_loop(name, args, 1), h)

\* builtin_list: the loop over reversed(args), from args[i] down.
RECURSIVE builtin_list_loop(_, _, _, _)
builtin_list_loop(args, i, pair, h) ==
    IF i = 0 THEN Result(Return(pair), h)
    ELSE LET h2 == Append(h, [first |-> args[i], second |-> pair])
         IN  builtin_list_loop(args, i - 1, Pair(Len(h2)), h2)

builtin_list(args, h) == builtin_list_loop(args, Len(args), Nil, h)

builtin_cons(args, h) ==
    LET h2 == Append(h, [first |-> args[1], second |-> args[2]])
    IN  Result(Return(Pair(Len(h2))), h2)

builtin_car(args, h) ==
    IF check_type_raises("Pair", <<args[1]>>)
    THEN Result(Raise("ProcedureError", <<"Expected pair or list.">>), h)
    ELSE IF h[args[1].addr].first = None
    THEN Result(Raise("ProcedureError", <<"attempted car on empty list">>), h)
    ELSE Result(Return(h[args[1].addr].first), h)

builtin_cdr(args, h) ==
    IF check_type_raises("Pair", <<args[1]>>)
    THEN Result(Raise("ProcedureError", <<"Expected pair or list.">>), h)
    ELSE IF h[args[1].addr].first = None
    THEN Result(Raise("ProcedureError", <<"attempted cdr on empty list">>), h)
    ELSE Result(Return(h[args[1].addr].second), h)

builtin_cadr(args, h) ==
    IF check_type_raises("Pair", <<args[1]>>)
    THEN Result(Raise("ProcedureError", <<"Expected pair of list">>), h)
    ELSE LET second == h[args[1].addr].second
         IN  IF ~HasFirst(second)
             THEN Result(Raise("AttributeError", <<>>), h)
             ELSE IF h[second.addr].first = None
             THEN Result(Raise("ProcedureError",
                               <<"attempted cadr on empty list">>), h)
             ELSE Result(Return(h[second.addr].first), h)

builtin_caddr(args, h) ==
    IF check_type_raises("Pair", <<args[1]>>)
    THEN Result(Raise("ProcedureError", <<"Expected pair of list">>), h)
    ELSE LET second == h[args[1].addr].second
         IN  IF ~HasFirst(second)
             THEN Result(Raise("AttributeError", <<>>), h)
             ELSE LET third == h[second.addr].second
                  IN  IF ~HasFirst(third)
                      THEN Result(Raise("AttributeError", <<>>), h)
                      ELSE IF h[third.addr].first = None
                      THEN Result(Raise("ProcedureError",
                                        <<"attempted caddr on empty list">>), h)
                      ELSE Result(Return(h[third.addr].first), h)

\* set-car!, were it to build the changed pair anew and return the copy.
builtin_set_car_Copying(args, h) ==
    IF check_type_raises("Pair", <<args[1]>>)
    THEN Result(Raise("ProcedureError", <<"Expected pair or list.">>), h)
    ELSE LET h2 == Append(h, [first |-> args[2],
                              second |-> h[args[1].addr].second])
         IN  Result(Return(Pair(Len(h2))), h2)

builtin_set_car(args, h) ==
    IF check_type_raises("Pair", <<args[1]>>)
    THEN Result(Raise("ProcedureError", <<"Expected pair or list.">>), h)
    ELSE Result(Return(args[1]),
                [h EXCEPT ![args[1].addr].first = args[2]])

builtin_set_cdr(args, h) ==
    IF check_type_raises("Pair", <<args[1]>>)
    THEN Result(Raise("ProcedureError", <<"Expected pair or list.">>), h)
    ELSE Result(Return(args[1]),
                [h EXCEPT ![args[1].addr].second = args[2]])

builtin_string_length(args, h) ==
    IF check_type_raises("String", <<args[1]>>)
    THEN Result(Raise("ProcedureError", <<"Expected string.">>), h)
    ELSE Result(Return(Number(PyInt(Len(args[1].value.str)))), h)

\* eqv?, were it to compare two pairs by their contents.
builtin_eqv_Structural(args, h) ==
    IF Len(args) < 2
    THEN Result(Raise("IndexError", <<>>), h)
    ELSE LET left == args[1]
             right == args[2]
         IN  IF isinstance(left, "Pair") /\ isinstance(right, "Pair")
             THEN Result(Return(Boolean(h[left.addr] = h[right.addr])), h)
             ELSE Result(Return(Boolean(ValueEq(left, right))), h)

\* id(left) == id(right) is the equality of the two addresses.
builtin_eqv(args, h) ==
    IF Len(args) < 2
    THEN Result(Raise("IndexError", <<>>), h)
    ELSE LET left == args[1]
             right == args[2]
         IN  IF isinstance(left, "Pair") /\ isinstance(right, "Pair")
             THEN Result(Return(Boolean(left.addr = right.addr)), h)
             ELSE Result(Return(Boolean(ValueEq(left, right))), h)

builtin_and(args, h) ==
    IF \E i \in 1..Len(args) : ValueEq(args[i], Boolean(FALSE))
    THEN Result(Return(Boolean(FALSE)), h)
    ELSE IF Len(args) > 0 THEN Result(Return(args[Len(args)]), h)
    ELSE Result(Return(Boolean(TRUE)), h)

builtin_or(args, h) ==
    IF \E i \in 1..Len(args) : ValueEq(args[i], Boolean(TRUE))
    THEN Result(Return(Boolean(TRUE)), h)
    ELSE IF Len(args) > 0 THEN Result(Return(args[Len(args)]), h)
    ELSE Result(Return(Boolean(FALSE)), h)

builtin_not(args, h) ==
    IF isinstance(args[1], "Boolean") /\ args[1].value = PyBool(FALSE)
    THEN Result(Return(Boolean(TRUE)), h)
    ELSE Result(Return(Boolean(FALSE)), h)

\* Python's a // b and a % b on integers, b nonzero: floored.
FloorDiv(a, b) == IF b > 0 THEN a \div b ELSE (0 - a) \div (0 - b)
FloorMod(a, b) == a - b * FloorDiv(a, b)

\* builtin_quotient and builtin_mod: a.value // b.value and a.value % b.value.
DivOp(name, args, h) ==
    IF ~HasValue(args[1]) \/ ~HasValue(args[2])
    THEN Result(Raise("AttributeError", <<>>), h)
    ELSE LET a == args[1].value
             b == args[2].value
         IN  IF ~(IsNumeric(a) /\ IsNumeric(b))
             THEN Result(Raise("TypeError", <<>>), h)
             ELSE IF AsInt(b) = 0
             THEN Result(Raise("ZeroDivisionError", <<>>), h)
             ELSE IF name = "quotient"
             THEN Result(Return(Number(PyInt(FloorDiv(AsInt(a), AsInt(b))))), h)
             ELSE Result(Return(Number(PyInt(FloorMod(AsInt(a), AsInt(b))))), h)

builtin_quotient(args, h) == DivOp("quotient", args, h)
builtin_mod(args, h) == DivOp("modulo", args, h)

builtin_is_pair(args, h) == Result(Return(Boolean(isinstance(args[1], "Pair"))), h)

\* number.value == 0
builtin_is_zero(args, h) ==
    IF ~HasValue(args[1])
    THEN Result(Raise("AttributeError", <<>>), h)
    ELSE Result(Return(Boolean(IsNumeric(args[1].value)
                               /\ AsInt(args[1].value) = 0)), h)

builtin_is_boolean(args, h) ==
    Result(Return(Boolean(isinstance(args[1], "Boolean"))), h)
builtin_is_symbol(args, h) ==
    Result(Return(Boolean(isinstance(args[1], "Symbol"))), h)
builtin_is_number(args, h) ==
    Result(Return(Boolean(isinstance(args[1], "Number"))), h)
builtin_is_null(args, h) ==
    Result(Return(Boolean(isinstance(args[1], "Nil"))), h)
builtin_is_string(args, h) ==
    Result(Return(Boolean(isinstance(args[1], "String"))), h)

\* builtin_map[name](*args)
builtin_map(name, args, h) ==
    CASE name \in {"eq?", "eqv?"} -> builtin_eqv(args, h)
      [] name = "pair?" -> builtin_is_pair(args, h)
      [] name = "zero?" -> builtin_is_zero(args, h)
      [] name = "boolean?" -> builtin_is_boolean(args, h)
      [] name = "symbol?" -> builtin_is_symbol(args, h)
      [] name = "number?" -> builtin_is_number(args, h)
      [] name = "null?" -> builtin_is_null(args, h)
      [] name = "string?" -> builtin_is_string(args, h)
      [] name \in {"+", "-", "*"} -> arith_op(name, args, h)
      [] name = "quotient" -> builtin_quotient(args, h)
      [] name = "modulo" -> builtin_mod(args, h)
      [] name \in {"=", ">", "<", ">=", "<="} -> comp_op(name, args, h)
      [] name = "and" -> builtin_and(args, h)
      [] name = "or" -> builtin_or(args, h)
      [] name = "not" -> builtin_not(args, h)
      [] name = "list" -> builtin_list(args, h)
      [] name = "cons" -> builtin_cons(args, h)
      [] name = "car" -> builtin_car(args, h)
      [] name = "cdr" -> builtin_cdr(args, h)
      [] name = "cadr" -> builtin_cadr(args, h)
      [] name = "caddr" -> builtin_caddr(args, h)
      [] name = "set-car!" -> builtin_set_car(args, h)
      [] name = "set-cdr!" -> builtin_set_cdr(args, h)
      [] name = "string-length" -> builtin_string_length(args, h)

\* The message of the arity error of Procedure.apply.
ArityMessage(name, argc, n) ==
    <<"Procedure \"", name, "\" expected ", ArgcStr(argc),
      " argument(s). Got ", IntStr(n), " instead">>

\* Procedure.apply, were it to refuse only argument lists that are too short.
Procedure_apply_TooFewOnly(name, args, h) ==
    LET argc == get_number_of_params(name)
    IN  IF ~(argc = PyStr("positional")) /\ IsInt(argc) /\ argc.int > Len(args)
        THEN [ret |-> Raise("ProcedureError", ArityMessage(name, argc, Len(args))),
              heap |-> h, invoked |-> FALSE]
        ELSE LET r == builtin_map(name, args, h)
             IN  [ret |-> r.ret, heap |-> r.heap, invoked |-> TRUE]

\* Procedure(name, builtin_map[name]).apply(*args), on heap h: how it ends,
\* the heap it leaves, and whether the body was invoked.
Procedure_apply(name, args, h) ==
    LET argc == get_number_of_params(name)
    IN  IF ~(argc = PyStr("positional")) /\ ~(argc = PyInt(Len(args)))
        THEN [ret |-> Raise("ProcedureError", ArityMessage(name, argc, Len(args))),
              heap |-> h, invoked |-> FALSE]
        ELSE LET r == builtin_map(name, args, h)
             IN  [ret |-> r.ret, heap |-> r.heap, invoked |-> TRUE]

\* The values a caller builds argument lists from: one or two atoms of each
\* variant, and a reference to every Pair object there is.
Atoms ==
    {Number(PyInt(0)), Number(PyInt(1)), Boolean(FALSE), String("a"),
     Symbol("x"), Nil}
PairRefs(h) == {Pair(a) : a \in 1..Len(h)}
Pool(h) == Atoms \cup PairRefs(h)
ArgLists(pool) == UNION {[1..n -> pool] : n \in 0..MaxArgs}

\* The runtime, with no procedure applied yet.
RtIdle ==
    /\ heap = <<>>
    /\ call = NoCall
    /\ ret = NoRet
    /\ invoked = FALSE

\* The caller applies the procedure registered as `name` to `args`.
ApplyCall(name, args) ==
    /\ call = NoCall
    /\ \E r \in {Procedure_apply(name, args, heap)} :
          /\ Len(r.heap) <= MaxPairs
          /\ call' = [name |-> name, args |-> args]
          /\ ret' = r.ret
          /\ invoked' = r.invoked
          /\ heap' = r.heap

\* The caller takes the outcome of the call and goes on.
Resume ==
    /\ call # NoCall
    /\ call' = NoCall
    /\ ret' = NoRet
    /\ invoked' = FALSE
    /\ UNCHANGED <<buffer, pos, tok, heap, fuel>>

\* A caller that applies any registered procedure to any argument list, at
\* most `fuel` times.
Apply ==
    /\ fuel > 0
    /\ fuel' = fuel - 1
    /\ \E name \in BuiltinNames : \E args \in ArgLists(Pool(heap)) :
           ApplyCall(name, args)
    /\ UNCHANGED <<buffer, pos, tok>>

\* No tokenizer is at work.
NoLexer ==
    /\ buffer = <<>>
    /\ pos = 0
    /\ tok = NotCalled

RtInit == NoLexer /\ RtIdle /\ fuel = MaxCalls
RtNext == Apply \/ Resume
RtSpec == RtInit /\ [][RtNext]_vars

\* One application on a fresh runtime.
ArityInit == NoLexer /\ RtIdle /\ fuel = 1
AritySpec == ArityInit /\ [][RtNext]_vars

\* A caller that works on pairs only: it conses, reads, mutates and compares,
\* with the declared number of arguments (two for eqv? and eq?), as often as
\* it likes.
PairOps == {"cons", "car", "cdr", "set-car!", "set-cdr!", "eqv?", "eq?"}
PairAtoms == {Number(PyInt(1)), Number(PyInt(2))}
PairOpArgc(name) ==
    IF IsInt(get_number_of_params(name)) THEN get_number_of_params(name).int ELSE 2

ApplyPairOp ==
    /\ \E name \in PairOps :
         \E args \in [1..PairOpArgc(name) -> PairAtoms \cup PairRefs(heap)] :
           ApplyCall(name, args)
    /\ UNCHANGED <<buffer, pos, tok, fuel>>

PairInit == NoLexer /\ RtIdle /\ fuel = 0
PairNext == ApplyPairOp \/ Resume
PairSpec == PairInit /\ [][PairNext]_vars

\* All buffers of at most MaxLen characters.
Buffers == UNION {[1..n -> Alphabet] : n \in 0..MaxLen}

\* Lexer.__init__
LexInit ==
    /\ buffer \in Buffers
    /\ pos = 0
    /\ tok = NotCalled
    /\ RtIdle
    /\ fuel = 0

\* A caller calls next_token().
NextToken ==
    /\ LET r == next_token(buffer, pos)
       IN  /\ tok' = r.tok
           /\ pos' = r.pos
    /\ UNCHANGED <<buffer, heap, fuel, call, ret, invoked>>

LexNext == NextToken

LexSpec == LexInit /\ [][LexNext]_vars

-----------------------------------------------------------------------------
(* Properties of the tokenizer, checked under LexSpec.                     *)

\* The characters an identifier is made of, listed one by one: the
\* alphanumerics, the fixed punctuation ? ! . and the punctuation that occurs
\* in the names of the builtins.
IdentClass == Digits \cup Letters \cup {"?", "!", ".", "+", "-", "*", "=", ">", "<"}

\* The end of the maximal run of characters of Class that starts at offset s:
\* the first offset after s that is the end of the buffer or holds a
\* character outside Class.
RunEnd(buf, s, Class) ==
    CHOOSE e \in (s + 1)..Len(buf) :
        /\ \A j \in (s + 1)..(e - 1) : buf[j + 1] \in Class
        /\ (e = Len(buf) \/ buf[e + 1] \notin Class)

\* The width in the buffer of a returned token: its text, and the two
\* delimiting quotes of a string.
TokenWidth(t) ==
    IF t.token_type = "STRING" THEN Len(t.val) + 2 ELSE Len(t.val)

\* C1: every call that returns a Token or an Error leaves the cursor
\* strictly greater than before the call: exactly after the consumed token,
\* or exactly after the offending character of an Error.
C1_CursorStrictlyAdvances ==
    [][ /\ tok'.kind = "Token" =>
              (pos' > pos /\ pos' = tok'.pos + TokenWidth(tok'))
        /\ tok'.kind = "Error" =>
              (pos' > pos /\ pos' = tok'.pos + 1) ]_vars

\* C3: maximal munch is per character class.  With the cursor at a digit the
\* call returns one Number token spanning exactly the maximal run of digits,
\* and stops there even when an identifier character follows; with the
\* cursor at a non-digit identifier character it returns one Identifier
\* token spanning the maximal run of identifier characters.
C3_MaximalMunchPerClass ==
    [][ pos < Len(buffer) =>
          LET c == buffer[pos + 1]
              dEnd == RunEnd(buffer, pos, Digits)
              iEnd == RunEnd(buffer, pos, IdentClass)
          IN  /\ c \in Digits =>
                    /\ tok' = Token("NUMBER", SubSeq(buffer, pos + 1, dEnd), pos)
                    /\ pos' = dEnd
              /\ c \in IdentClass \ Digits =>
                    /\ tok' = Token("IDENTIFIER", SubSeq(buffer, pos + 1, iEnd), pos)
                    /\ pos' = iEnd ]_vars

\* C3 witness: a Number token of two digits was returned and the cursor now
\* rests on a letter (the 12abc case).
C3_Witness_NumberThenLetter ==
    /\ tok.kind = "Token"
    /\ tok.token_type = "NUMBER"
    /\ Len(tok.val) = 2
    /\ pos < Len(buffer)
    /\ buffer[pos + 1] \in Letters

\* No closing quote follows the opening quote at offset s before a newline
\* or the end of the buffer.
Unterminated(buf, s) ==
    ~ \E e \in (s + 1)..(Len(buf) - 1) :
        /\ buf[e + 1] = "\""
        /\ \A j \in (s + 1)..(e - 1) : buf[j + 1] # "\n"

\* C4: with the cursor at an opening quote and a newline or the end of input
\* before any closing quote, the call returns an Error whose position is the
\* offset of the opening quote.
C4_UnterminatedStringErrorAtOpeningQuote ==
    [][ (/\ pos < Len(buffer)
         /\ buffer[pos + 1] = "\""
         /\ Unterminated(buffer, pos))
        => (tok'.kind = "Error" /\ tok'.pos = pos) ]_vars

\* C4 witness: an Error was returned at an opening quote that is followed,
\* one or more characters later, by a newline.
C4_Witness_ErrorAtQuoteBeforeNewline ==
    /\ tok.kind = "Error"
    /\ tok.pos < Len(buffer)
    /\ buffer[tok.pos + 1] = "\""
    /\ \E e \in (tok.pos + 2)..(Len(buffer) - 1) : buffer[e + 1] = "\n"
    /\ Unterminated(buffer, tok.pos)

\* The quote at offset e is escaped: a backslash stands right before it.
Escaped(buf, e) == e >= 1 /\ buf[e] = "\\"

\* The offsets after s that hold an unescaped quote on the same line.
UnescapedQuotes(buf, s) ==
    {e \in (s + 1)..(Len(buf) - 1) :
        /\ buf[e + 1] = "\""
        /\ ~Escaped(buf, e)
        /\ \A j \in (s + 1)..(e - 1) : buf[j + 1] # "\n"}

\* C10: with the cursor at an opening quote, the String token ends at the
\* next unescaped quote on the same line (an escaped quote does not end it),
\* its text is what lies strictly between the two quotes, and the cursor is
\* left right after the closing quote.
C10_StringEndsAtNextUnescapedQuote ==
    [][ (/\ pos < Len(buffer)
         /\ buffer[pos + 1] = "\""
         /\ UnescapedQuotes(buffer, pos) # {})
        => LET e == CHOOSE x \in UnescapedQuotes(buffer, pos) :
                        \A y \in UnescapedQuotes(buffer, pos) : x <= y
           IN  /\ tok' = Token("STRING", SubSeq(buffer, pos + 2, e), pos)
               /\ pos' = e + 1 ]_vars

-----------------------------------------------------------------------------
(* Properties of Procedure.apply, checked under AritySpec.                 *)

\* C2: a procedure of fixed declared arity n applied to k # n arguments
\* raises the arity error, whose message carries the procedure's name, n and
\* k, and its body is not invoked (so no pair is allocated); the body is
\* invoked only when k = n or the procedure is variadic.  For quotient, n = 2.
C2_ArityMismatchRaisesBeforeBody ==
    call # NoCall =>
        LET argc == get_number_of_params(call.name)
            k == Len(call.args)
        IN  /\ (IsInt(argc) /\ argc.int # k) =>
                  /\ ret.kind = "raise"
                  /\ ret.exc = "ProcedureError"
                  /\ Len(ret.msg) = 7
                  /\ ret.msg[2] = call.name
                  /\ ret.msg[4] = IntStr(argc.int)
                  /\ ret.msg[6] = IntStr(k)
                  /\ ~invoked
                  /\ heap = <<>>
            /\ (call.name = "quotient" /\ k # 2) =>
                  (ret.exc = "ProcedureError" /\ ret.msg[4] = "2" /\ ~invoked)
            /\ invoked => (IsStr(argc) \/ argc.int = k)

\* C2 witness: quotient was applied to three arguments and the arity error
\* was raised.
C2_Witness_QuotientThreeArgs ==
    /\ call.name = "quotient"
    /\ Len(call.args) = 3
    /\ ret.kind = "raise"
    /\ ret.exc = "ProcedureError"
    /\ ~invoked

-----------------------------------------------------------------------------
(* Properties of the pair operations, checked under PairSpec.              *)

\* C5: set-car!(p, x) (set-cdr!(p, x)) overwrites only the first (second)
\* slot of p in place, allocates no pair and returns p itself; afterwards
\* car(p) (cdr(p)), read through any reference to p, also one held in a slot
\* of another pair, yields x; p's other slot and every other pair are
\* unchanged.
C5_SetCarSetCdrMutateInPlace ==
    [][ (/\ call = NoCall
         /\ call' # NoCall
         /\ call'.name \in {"set-car!", "set-cdr!"}
         /\ call'.args[1].tag = "Pair")
        => LET p == call'.args[1].addr
               x == call'.args[2]
               isCar == call'.name = "set-car!"
               read(r) == IF isCar THEN builtin_car(<<r>>, heap').ret
                          ELSE builtin_cdr(<<r>>, heap').ret
           IN  /\ ret' = Return(Pair(p))
               /\ Len(heap') = Len(heap)
               /\ isCar => (heap'[p].first = x /\ heap'[p].second = heap[p].second)
               /\ ~isCar => (heap'[p].second = x /\ heap'[p].first = heap[p].first)
               /\ \A q \in 1..Len(heap) : q # p => heap'[q] = heap[q]
               /\ read(call'.args[1]) = Return(x)
               /\ \A q \in 1..Len(heap') :
                    /\ heap'[q].first = Pair(p) => read(heap'[q].first) = Return(x)
                    /\ heap'[q].second = Pair(p) => read(heap'[q].second) = Return(x)
      ]_vars

\* C5 witness: set-car! has just changed a pair p that another pair q holds
\* in one of its slots.
C5_Witness_SetCarOnSharedPair ==
    /\ call.name = "set-car!"
    /\ ret.kind = "return"
    /\ \E q \in 1..Len(heap) :
         /\ q # call.args[1].addr
         /\ (heap[q].first = call.args[1] \/ heap[q].second = call.args[1])
    /\ heap[call.args[1].addr].first = call.args[2]

\* C6: eqv? and eq? on two Pair values return true exactly when both are the
\* same pair object, so false for two distinct pairs even with equal
\* contents, in every heap that set-car!/set-cdr! calls can produce; on any
\* other two values they compare by value.
C6_EqvOnPairsIsIdentity ==
    (call.name \in {"eqv?", "eq?"} /\ Len(call.args) = 2) =>
        LET left == call.args[1]
            right == call.args[2]
        IN  IF left.tag = "Pair" /\ right.tag = "Pair"
            THEN /\ left.addr = right.addr => ret = Return(Boolean(TRUE))
                 /\ left.addr # right.addr => ret = Return(Boolean(FALSE))
            ELSE ret = Return(Boolean(left = right))

\* C6 witness: eqv? was applied to two distinct pairs with equal contents and
\* returned false.
C6_Witness_EqualContentsDistinctPairs ==
    /\ call.name = "eqv?"
    /\ Len(call.args) = 2
    /\ call.args[1].tag = "Pair"
    /\ call.args[2].tag = "Pair"
    /\ call.args[1].addr # call.args[2].addr
    /\ heap[call.args[1].addr] = heap[call.args[2].addr]
    /\ ret = Return(Boolean(FALSE))

-----------------------------------------------------------------------------
(* Properties of the builtin registry, checked under RtSpec.               *)

ReductionNames == {"+", "-", "*", "=", ">", "<", ">=", "<="}
PredicateNames ==
    {"pair?", "zero?", "boolean?", "symbol?", "number?", "null?", "string?"}

\* C7: a reduction builtin (+ - * = > < >= <=) applied to an argument list
\* of any length that holds a value that is not a Number ends in an error.
C7_ReductionRejectsNonNumber ==
    (/\ call.name \in ReductionNames
     /\ \E i \in 1..Len(call.args) : call.args[i].tag # "Number")
    => ret.kind = "raise"

\* C8: every builtin applied to any arguments either returns a value or
\* raises ProcedureError with a message; nothing else surfaces.
C8_OnlyProcedureErrorSurfaces ==
    call # NoCall =>
        \/ ret.kind = "return"
        \/ (ret.kind = "raise" /\ ret.exc = "ProcedureError" /\ ret.msg # <<>>)

\* C9: a type predicate applied to one argument of any variant never fails
\* and returns the Boolean of the tag test it names; zero? returns a Boolean
\* without error also for an argument that is not a Number.
C9_TypePredicatesNeverFail ==
    (call.name \in PredicateNames /\ Len(call.args) = 1) =>
        LET arg == call.args[1]
            is(tag) == ret = Return(Boolean(arg.tag = tag))
        IN  /\ ret.kind = "return"
            /\ ret.val.tag = "Boolean"
            /\ call.name = "pair?" => is("Pair")
            /\ call.name = "boolean?" => is("Boolean")
            /\ call.name = "symbol?" => is("Symbol")
            /\ call.name = "number?" => is("Number")
            /\ call.name = "null?" => is("Nil")
            /\ call.name = "string?" => is("String")

=============================================================================
